---- MODULE Spec2Model ----
(***************************************************************************)
(* Verification model of the quantum-circuit descriptions of the           *)
(* repository:                                                             *)
(*   - the symmetric-state compression circuit (notebook and saved .qmod), *)
(*   - the quantum-counting building blocks (oracle, diffuser, Grover      *)
(*     operator).                                                          *)
(* A register is a function from qubit index (0 = least significant) to a  *)
(* bit; a superposition is a function from basis-state numbers to exact    *)
(* amplitudes in the field Q(sqrt 2, sqrt 3, sqrt 5).                      *)
(***************************************************************************)
EXTENDS Integers, Sequences, FiniteSets, TLC

VARIABLES
    prog,      \* the function being executed
    pc,        \* number of gates/steps executed so far
    n,         \* q_array.len
    q_in,      \* the input the run started from
    q_array,   \* the register: bits of a computational basis state
    psi,       \* the register in superposition: amplitude of each basis state
    trace,     \* the gates / operations emitted so far
    qtrace     \* the gates read so far from main of the saved .qmod

vars == <<prog, pc, n, q_in, q_array, psi, trace, qtrace>>

(***************************************************************************)
(* Bounds                                                                  *)
(***************************************************************************)
MaxN == 8      \* largest register length of the final-stage runs
MaxLen == 4    \* largest register length given to reflection_about_zero
MaxK == 3      \* largest number k of Grover iterations of my_iqae_algorithm

(***************************************************************************)
(* Integer helpers                                                         *)
(***************************************************************************)
RECURSIVE Pow2(_)
Pow2(e) == IF e = 0 THEN 1 ELSE 2 * Pow2(e - 1)

Bit(s, i) == (s \div Pow2(i)) % 2

\* ceil(log2(m)) for m >= 1
CeilLog2(m) == CHOOSE e \in 0..m : Pow2(e) >= m /\ \A f \in 0..(e - 1) : Pow2(f) < m

RECURSIVE Reverse(_)
Reverse(s) == IF s = <<>> THEN <<>> ELSE Append(Reverse(Tail(s)), Head(s))

\* Python: len(bin(m)) - 2 for m >= 0, the length of bin(m)[2:]
RECURSIVE BinLen(_)
BinLen(m) == IF m < 2 THEN 1 ELSE 1 + BinLen(m \div 2)

\* Python: bin(m)[2:][i] == '1' (the string is most significant digit first)
BinChar(m, i) == Bit(m, BinLen(m) - 1 - i)

(***************************************************************************)
(* Exact amplitudes.  Every matrix entry of the circuit is +-sqrt(p)/sqrt(q)*)
(* with p, q products of 2, 3 and 5, so amplitudes live in the field       *)
(* Q(sqrt 2, sqrt 3, sqrt 5).  An element is [c, d]: the number            *)
(*   (SUM over m in 0..7 of c[m] * sqrt(Radical(m))) / d                   *)
(* where bit 0, 1, 2 of m selects the factor 2, 3, 5 of the radical.       *)
(* Elements are kept in lowest terms with d > 0, so equal numbers are      *)
(* equal records.                                                          *)
(***************************************************************************)
Abs(a) == IF a < 0 THEN -a ELSE a

RECURSIVE GCD(_, _)
GCD(a, b) == IF b = 0 THEN a ELSE GCD(b, a % b)

\* bitwise exclusive or / and of two numbers below 8
Xor3(a, b) ==
    ((Bit(a, 0) + Bit(b, 0)) % 2) + 2 * ((Bit(a, 1) + Bit(b, 1)) % 2)
        + 4 * ((Bit(a, 2) + Bit(b, 2)) % 2)
And3(a, b) ==
    (Bit(a, 0) * Bit(b, 0)) + 2 * (Bit(a, 1) * Bit(b, 1)) + 4 * (Bit(a, 2) * Bit(b, 2))

\* sqrt(Radical(a)) * sqrt(Radical(b)) = Common(a, b) * sqrt(Radical(Xor3(a, b)))
Common(a, b) ==
    (IF Bit(a, 0) * Bit(b, 0) = 1 THEN 2 ELSE 1)
        * (IF Bit(a, 1) * Bit(b, 1) = 1 THEN 3 ELSE 1)
        * (IF Bit(a, 2) * Bit(b, 2) = 1 THEN 5 ELSE 1)

Sum8(F(_)) == F(0) + F(1) + F(2) + F(3) + F(4) + F(5) + F(6) + F(7)

FNorm(c, d) ==
    LET g == GCD(GCD(GCD(GCD(d, Abs(c[0])), GCD(Abs(c[1]), Abs(c[2]))),
                     GCD(GCD(Abs(c[3]), Abs(c[4])), GCD(Abs(c[5]), Abs(c[6])))),
                 Abs(c[7]))
    IN  [c |-> [m \in 0..7 |-> c[m] \div g], d |-> d \div g]

FZero == [c |-> [m \in 0..7 |-> 0], d |-> 1]
FOne == [c |-> [m \in 0..7 |-> IF m = 0 THEN 1 ELSE 0], d |-> 1]

FNeg(x) == [c |-> [m \in 0..7 |-> -x.c[m]], d |-> x.d]

FAdd(x, y) ==
    IF x = FZero THEN y
    ELSE IF y = FZero THEN x
    ELSE FNorm([m \in 0..7 |-> x.c[m] * y.d + y.c[m] * x.d], x.d * y.d)

FMul(x, y) ==
    IF x = FZero \/ y = FZero THEN FZero
    ELSE IF x = FOne THEN y
    ELSE IF y = FOne THEN x
    ELSE FNorm([k \in 0..7 |->
                   LET Term(a) == x.c[a] * y.c[Xor3(a, k)] * Common(a, Xor3(a, k))
                   IN  Sum8(Term)],
               x.d * y.d)

\* the largest c with c*c dividing m
SquarePart(m) == CHOOSE c \in 1..m : m % (c * c) = 0 /\ \A e \in (c + 1)..m : m % (e * e) # 0

\* the index of the radical r (a square-free product of 2, 3, 5)
RadicalIndex(r) ==
    (IF r % 2 = 0 THEN 1 ELSE 0) + (IF r % 3 = 0 THEN 2 ELSE 0) + (IF r % 5 = 0 THEN 4 ELSE 0)

\* sqrt(p) / sqrt(q) for integers p >= 0, q >= 1:  sqrt(p*q) / q
SqrtRatio(p, q) ==
    IF p = 0 THEN FZero
    ELSE LET s == SquarePart(p * q)
             r == (p * q) \div (s * s)
         IN  FNorm([m \in 0..7 |-> IF m = RadicalIndex(r) THEN s ELSE 0], q)

\* scipy.special.comb(a, b, exact=True)
RECURSIVE comb(_, _)
comb(a, b) ==
    IF b < 0 \/ b > a THEN 0
    ELSE IF b = 0 THEN 1
    ELSE (comb(a - 1, b - 1) * a) \div b

(***************************************************************************)
(* The classical functions that build the 8x8 matrices                     *)
(***************************************************************************)
Eye8 == [i \in 0..7 |-> [j \in 0..7 |-> IF i = j THEN FOne ELSE FZero]]

U_ab_Swapped(a, b) ==
    LET x == SqrtRatio(comb(a - 1, b), comb(a, b + 1))
        y == SqrtRatio(comb(a - 1, b + 1), comb(a, b + 1))
    IN  [Eye8 EXCEPT ![2][2] = x, ![2][5] = y, ![5][2] = y, ![5][5] = FNeg(x)]

U_ab(a, b) ==
    LET alpha_101_sq == comb(a - 1, b)
        alpha_010_sq == comb(a - 1, b + 1)
        beta_010_sq == comb(a, b + 1)
        x == SqrtRatio(alpha_010_sq, beta_010_sq)
        y == SqrtRatio(alpha_101_sq, beta_010_sq)
    IN  [Eye8 EXCEPT ![2][2] = x, ![2][5] = y, ![5][2] = y, ![5][5] = FNeg(x)]

U_final_Transposed(a) ==
    LET x == SqrtRatio(a - 1, a)
        y == SqrtRatio(1, a)
    IN  [Eye8 EXCEPT ![1][1] = x, ![1][4] = FNeg(y), ![4][1] = y, ![4][4] = x]

U_final_SameSign(a) ==
    LET x == SqrtRatio(a - 1, a)
        y == SqrtRatio(1, a)
    IN  [Eye8 EXCEPT ![1][1] = x, ![1][4] = y, ![4][1] = y, ![4][4] = x]

U_final(a) ==
    LET x == SqrtRatio(a - 1, a)
        y == SqrtRatio(1, a)
    IN  [Eye8 EXCEPT ![1][1] = x, ![1][4] = y, ![4][1] = FNeg(y), ![4][4] = x]

\* the Hadamard matrix
HMatrix ==
    LET h == SqrtRatio(1, 2)
    IN  [i \in 0..1 |-> [j \in 0..1 |-> IF i = 1 /\ j = 1 THEN FNeg(h) ELSE h]]

Transpose(M) == [i \in DOMAIN M |-> [j \in DOMAIN M |-> M[j][i]]]

(***************************************************************************)
(* Gates.  Every gate is a record                                          *)
(*   op   : "CX" (control(...) X), "CH" (control(...) H),                  *)
(*          "MCX" (apply_MultiCNOT), "Uab" / "Uf" (apply_matrix)           *)
(*   ctrl : the control qubits (CX, CH, MCX), in order                     *)
(*   tgt  : the target qubit(s); for a unitary the three qubits p1,p2,p3   *)
(*   A, B : the arguments of U_ab(A, B) / U_final(A); 0 when unused        *)
(***************************************************************************)
Gate(op, ctrl, tgt, A, B) == [op |-> op, ctrl |-> ctrl, tgt |-> tgt, A |-> A, B |-> B]

\* the position the loop body of the final stage addresses for character i
FinalTarget_OffByOne(k, i) == BinLen(k + 1) - i
FinalTarget(k, i) == BinLen(k + 1) - i - 1

\* the inner loop "for i in range(len(bin(k+1)[2:]))" from character i on:
\* the CNOTs it emits
RECURSIVE FinalCNOTs(_, _)
FinalCNOTs(k, i) ==
    IF i >= BinLen(k + 1) THEN <<>>
    ELSE IF BinChar(k + 1, i) = 1
         THEN <<Gate("CX", <<k>>, <<FinalTarget(k, i)>>, 0, 0)>> \o FinalCNOTs(k, i + 1)
         ELSE FinalCNOTs(k, i + 1)

\* ... and the list indeces it builds (before the reversal)
RECURSIVE indeces(_, _)
indeces(k, i) ==
    IF i >= BinLen(k + 1) THEN <<>>
    ELSE IF BinChar(k + 1, i) = 1
         THEN <<FinalTarget(k, i)>> \o indeces(k, i + 1)
         ELSE indeces(k, i + 1)

\* apply_MultiCNOT(q, controls): controls[0:-1] control an X on controls[-1]
apply_MultiCNOT(controls) ==
    Gate("MCX", SubSeq(controls, 1, Len(controls) - 1), <<controls[Len(controls)]>>, 0, 0)

\* one iteration k of the final loop
FinalStageOf(k) ==
    FinalCNOTs(k, 0) \o <<apply_MultiCNOT(Append(Reverse(indeces(k, 0)), k))>>

\* "for k in range(2, q_array.len)" from k on
RECURSIVE FinalStageFrom(_, _)
FinalStageFrom(k, len) ==
    IF k >= len THEN <<>> ELSE FinalStageOf(k) \o FinalStageFrom(k + 1, len)

FinalStage(len) == FinalStageFrom(2, len)

(***************************************************************************)
(* Gates on a computational basis state (a bit array)                      *)
(***************************************************************************)
AllSet(q, ctrl) == \A c \in 1..Len(ctrl) : q[ctrl[c]] = 1

\* control(ctrl, X(tgt)) on a basis state; CX and MCX are their own inverses
ControlledX(q, g) ==
    IF AllSet(q, g.ctrl) THEN [q EXCEPT ![g.tgt[1]] = 1 - @] ELSE q

Registers(len) == [0..(len - 1) -> {0, 1}]

(***************************************************************************)
(* The final stage run on every basis state, followed by the same gates in *)
(* reverse order (decompression).                                          *)
(***************************************************************************)
FinalLen == Len(FinalStage(n))

InitFinal ==
    /\ prog = "final_stage"
    /\ n \in 2..MaxN
    /\ q_in \in Registers(n)
    /\ q_array = q_in
    /\ psi = <<>>
    /\ trace = <<>>
    /\ qtrace = <<>>
    /\ pc = 0

FinalCNOT ==
    /\ prog = "final_stage"
    /\ pc < FinalLen
    /\ FinalStage(n)[pc + 1].op = "CX"
    /\ q_array' = ControlledX(q_array, FinalStage(n)[pc + 1])
    /\ pc' = pc + 1
    /\ UNCHANGED <<prog, n, q_in, psi, trace, qtrace>>

FinalMultiCNOT ==
    /\ prog = "final_stage"
    /\ pc < FinalLen
    /\ FinalStage(n)[pc + 1].op = "MCX"
    /\ q_array' = ControlledX(q_array, FinalStage(n)[pc + 1])
    /\ pc' = pc + 1
    /\ UNCHANGED <<prog, n, q_in, psi, trace, qtrace>>

\* decompression: the gates of the final stage, last one first
FinalUndo ==
    /\ prog = "final_stage"
    /\ pc >= FinalLen
    /\ pc < 2 * FinalLen
    /\ q_array' = ControlledX(q_array, FinalStage(n)[2 * FinalLen - pc])
    /\ pc' = pc + 1
    /\ UNCHANGED <<prog, n, q_in, psi, trace, qtrace>>

NextFinal == FinalCNOT \/ FinalMultiCNOT \/ FinalUndo

SpecFinal == InitFinal /\ [][NextFinal]_vars

(***************************************************************************)
(* The gate sequence of symmetric_compression_algorithm                    *)
(***************************************************************************)
\* apply_Uab(a, q): "for b in range(a-1)" from b on
RECURSIVE apply_UabFrom(_, _)
apply_UabFrom(a, b) ==
    IF b >= a - 1 THEN <<>>
    ELSE <<Gate("Uab", <<>>, <<b, b + 1, a>>, a + 1, b + 1)>> \o apply_UabFrom(a, b + 1)

apply_Uab(a) == apply_UabFrom(a, 0)

apply_Uf_WrongQubits(a) == <<Gate("Uf", <<>>, <<a - 1, 0, a>>, a + 1, 0)>>
apply_Uf(a) == <<Gate("Uf", <<>>, <<0, a - 1, a>>, a + 1, 0)>>

\* "for i in range(2, q_array.len)" from i on
RECURSIVE ULoopFrom(_, _)
ULoopFrom_CnotFirst(i, len) ==
    IF i >= len THEN <<>>
    ELSE apply_Uab(i) \o <<Gate("CX", <<i>>, <<i - 1>>, 0, 0)>> \o apply_Uf(i)
             \o ULoopFrom(i + 1, len)
ULoopFrom(i, len) ==
    IF i >= len THEN <<>>
    ELSE apply_Uab(i) \o apply_Uf(i) \o <<Gate("CX", <<i>>, <<i - 1>>, 0, 0)>>
             \o ULoopFrom(i + 1, len)

VGate == <<Gate("CX", <<1>>, <<0>>, 0, 0), Gate("CH", <<0>>, <<1>>, 0, 0)>>

symmetric_compression_algorithm(len) == VGate \o ULoopFrom(2, len) \o FinalStage(len)

\* main of Test 1 after allocate: hadamard_transform, then the compression
main(len) == <<Gate("HT", <<>>, <<>>, 0, 0)>> \o symmetric_compression_algorithm(len)

(***************************************************************************)
(* Gates on a superposition p: a function from the basis states            *)
(* 0..2^len-1 (bit i of the number = qubit i) to amplitudes                *)
(***************************************************************************)
BasisStates(len) == 0..(Pow2(len) - 1)

SetBit(s, i, v) == s - Bit(s, i) * Pow2(i) + v * Pow2(i)

FSum2(F(_)) == FAdd(F(0), F(1))
FSum8(F(_)) ==
    FAdd(FAdd(FAdd(F(0), F(1)), FAdd(F(2), F(3))), FAdd(FAdd(F(4), F(5)), FAdd(F(6), F(7))))

CtrlSet(s, ctrl) == \A c \in 1..Len(ctrl) : Bit(s, ctrl[c]) = 1

\* control(ctrl, X(t)): amplitudes move along the permutation
ApplyCX(p, ctrl, t, len) ==
    [s \in BasisStates(len) |->
        p[IF CtrlSet(s, ctrl) THEN SetBit(s, t, 1 - Bit(s, t)) ELSE s]]

\* H(t)
ApplyH(p, t, len) ==
    [s \in BasisStates(len) |->
        LET Term(j) == FMul(HMatrix[Bit(s, t)][j], p[SetBit(s, t, j)]) IN FSum2(Term)]

\* control(ctrl, H(t))
ApplyCH(p, ctrl, t, len) ==
    [s \in BasisStates(len) |-> IF CtrlSet(s, ctrl) THEN ApplyH(p, t, len)[s] ELSE p[s]]

\* hadamard_transform(x): H on every qubit, from qubit i on
RECURSIVE hadamard_transform(_, _, _)
hadamard_transform(p, i, len) ==
    IF i >= len THEN p
    ELSE LET q == ApplyH(p, i, len)
         IN  IF q = q THEN hadamard_transform(q, i + 1, len) ELSE p

\* apply_matrix(matrix, q, p1, p2, p3): temp_array = [q[p1], q[p2], q[p3]],
\* unitary(matrix, temp_array).  temp_array[0] is the least significant bit
\* of the row/column number; the new amplitude vector is matrix * old.
LocalIndex(s, qs) == Bit(s, qs[1]) + 2 * Bit(s, qs[2]) + 4 * Bit(s, qs[3])
PutLocal(s, qs, j) ==
    SetBit(SetBit(SetBit(s, qs[1], Bit(j, 0)), qs[2], Bit(j, 1)), qs[3], Bit(j, 2))

apply_matrix(matrix, p, qs, len) ==
    [s \in BasisStates(len) |->
        LET Term(j) == FMul(matrix[LocalIndex(s, qs)][j], p[PutLocal(s, qs, j)])
        IN  FSum8(Term)]

GateMatrix(g) == IF g.op = "Uab" THEN U_ab(g.A, g.B) ELSE U_final(g.A)

ApplyGate(p, g, len) ==
    CASE g.op \in {"CX", "MCX"} -> ApplyCX(p, g.ctrl, g.tgt[1], len)
      [] g.op = "CH" -> ApplyCH(p, g.ctrl, g.tgt[1], len)
      [] g.op = "HT" -> hadamard_transform(p, 0, len)
      [] g.op \in {"Uab", "Uf"} -> apply_matrix(GateMatrix(g), p, g.tgt, len)

\* the inverse gate: X, H are their own inverses, a real matrix is inverted
\* by its transpose when it is orthogonal
ApplyInverse(p, g, len) ==
    IF g.op \in {"Uab", "Uf"}
    THEN apply_matrix(Transpose(GateMatrix(g)), p, g.tgt, len)
    ELSE ApplyGate(p, g, len)

(***************************************************************************)
(* Input states                                                            *)
(***************************************************************************)
BasisVector(s, len) == [t \in BasisStates(len) |-> IF t = s THEN FOne ELSE FZero]

RECURSIVE Weight(_)
Weight(s) == IF s = 0 THEN 0 ELSE (s % 2) + Weight(s \div 2)

\* |len; k>: the equal superposition of the basis states with k ones
SymmetricState(len, k) ==
    [s \in BasisStates(len) |-> IF Weight(s) = k THEN SqrtRatio(1, comb(len, k)) ELSE FZero]

InputState(in, len) ==
    IF in.kind = "sym" THEN SymmetricState(len, in.k) ELSE BasisVector(in.k, len)

Support(p) == {s \in DOMAIN p : p[s] # FZero}

(***************************************************************************)
(* The compression run on superpositions (register lengths of the tests),  *)
(* followed by the inverse gates in reverse order (decompression).         *)
(***************************************************************************)
SymLens == {3, 5}

Program == IF prog = "main" THEN main(n) ELSE symmetric_compression_algorithm(n)
ProgLen == Len(Program)
Compressing == prog \in {"main", "symmetric_compression_algorithm"}

InitCompress ==
    /\ n \in SymLens
    /\ \/ /\ prog = "symmetric_compression_algorithm"
          /\ q_in \in {[kind |-> "basis", k |-> s] : s \in BasisStates(n)}
                        \cup {[kind |-> "sym", k |-> k] : k \in 0..n}
       \/ /\ prog = "main"
          /\ q_in = [kind |-> "basis", k |-> 0]
    /\ psi = InputState(q_in, n)
    /\ q_array = <<>>
    /\ trace = <<>>
    /\ qtrace = <<>>
    /\ pc = 0

CompressStep(ops) ==
    /\ Compressing
    /\ pc < ProgLen
    /\ Program[pc + 1].op \in ops
    /\ psi' = ApplyGate(psi, Program[pc + 1], n)
    /\ pc' = pc + 1
    /\ UNCHANGED <<prog, n, q_in, q_array, trace, qtrace>>

MainHadamard == CompressStep({"HT"})
CompressCNOT == CompressStep({"CX"})
CompressCH == CompressStep({"CH"})
CompressMatrix == CompressStep({"Uab", "Uf"})
CompressMultiCNOT == CompressStep({"MCX"})

Decompress ==
    /\ Compressing
    /\ pc >= ProgLen
    /\ pc < 2 * ProgLen
    /\ psi' = ApplyInverse(psi, Program[2 * ProgLen - pc], n)
    /\ pc' = pc + 1
    /\ UNCHANGED <<prog, n, q_in, q_array, trace, qtrace>>

NextCompress ==
    \/ MainHadamard
    \/ CompressCNOT
    \/ CompressCH
    \/ CompressMatrix
    \/ CompressMultiCNOT
    \/ Decompress

SpecCompress == InitCompress /\ [][NextCompress]_vars

CompressDone == Compressing /\ pc = ProgLen

\* the outcome [b0, b1, ...] as printed by the notebook: qubit 0 first
Outcome(s, len) == [i \in 1..len |-> Bit(s, i - 1)]

\* C2: Test 1 (5 qubits, hadamard_transform, compression): every basis state
\* with a nonzero amplitude has qubits 3 and 4 equal to 0, and the outcomes
\* with nonzero probability are exactly the six listed patterns.
C2_Test1ThreeQubits ==
    (CompressDone /\ prog = "main" /\ n = 5) =>
        /\ \A s \in Support(psi) : Bit(s, 3) = 0 /\ Bit(s, 4) = 0
        /\ {Outcome(s, 5) : s \in Support(psi)} =
               {<<0, 0, 0, 0, 0>>, <<1, 0, 0, 0, 0>>, <<0, 1, 0, 0, 0>>,
                <<1, 1, 0, 0, 0>>, <<0, 0, 1, 0, 0>>, <<1, 0, 1, 0, 0>>}

C2_Witness ==
    /\ CompressDone /\ prog = "main" /\ n = 5
    /\ psi[2] = SqrtRatio(10, 32)

\* C3: the symmetric state |n;k> (n = 3, 5; k = 0..n) is mapped to the single
\* basis state holding the binary representation of k, qubit 0 least
\* significant; W_3 = |3;1> gives the outcome [1,0,0] with certainty.
C3_SymmetricToBinary ==
    (CompressDone /\ prog = "symmetric_compression_algorithm" /\ q_in.kind = "sym") =>
        /\ Support(psi) = {q_in.k}
        /\ psi[q_in.k] = FOne
        /\ \A s \in Support(psi) : \A i \in 0..(n - 1) : Bit(s, i) = Bit(q_in.k, i)
        /\ (n = 3 /\ q_in.k = 1 => {Outcome(s, 3) : s \in Support(psi)} = {<<1, 0, 0>>})

C3_Witness ==
    /\ CompressDone /\ prog = "symmetric_compression_algorithm"
    /\ n = 3 /\ q_in = [kind |-> "sym", k |-> 1]
    /\ psi = BasisVector(1, 3)

(***************************************************************************)
(* The saved model (.qmod).  Matrix entries are written with 4 decimals;   *)
(* a table holds the entries times 10^4.                                   *)
(***************************************************************************)
Scale == 10000

QGate(op, ctrl, tgt, matrix) == [op |-> op, ctrl |-> ctrl, tgt |-> tgt, matrix |-> matrix]

\* apply_matrix_expanded___0: unitary([...], temp_array), entries times 10^4
QmodTable0 ==
    <<<<10000, 0, 0, 0, 0, 0, 0, 0>>,
      <<0, 10000, 0, 0, 0, 0, 0, 0>>,
      <<0, 0, 5774, 0, 0, 8165, 0, 0>>,
      <<0, 0, 0, 10000, 0, 0, 0, 0>>,
      <<0, 0, 0, 0, 10000, 0, 0, 0>>,
      <<0, 0, 8165, 0, 0, -5774, 0, 0>>,
      <<0, 0, 0, 0, 0, 0, 10000, 0>>,
      <<0, 0, 0, 0, 0, 0, 0, 10000>>>>

\* apply_matrix_expanded___1: unitary([...], temp_array), entries times 10^4
QmodTable1 ==
    <<<<10000, 0, 0, 0, 0, 0, 0, 0>>,
      <<0, 8165, 0, 0, 5774, 0, 0, 0>>,
      <<0, 0, 10000, 0, 0, 0, 0, 0>>,
      <<0, 0, 0, 10000, 0, 0, 0, 0>>,
      <<0, -5774, 0, 0, 8165, 0, 0, 0>>,
      <<0, 0, 0, 0, 0, 10000, 0, 0>>,
      <<0, 0, 0, 0, 0, 0, 10000, 0>>,
      <<0, 0, 0, 0, 0, 0, 0, 10000>>>>

\* apply_matrix_expanded___2: unitary([...], temp_array), entries times 10^4
QmodTable2 ==
    <<<<10000, 0, 0, 0, 0, 0, 0, 0>>,
      <<0, 10000, 0, 0, 0, 0, 0, 0>>,
      <<0, 0, 7071, 0, 0, 7071, 0, 0>>,
      <<0, 0, 0, 10000, 0, 0, 0, 0>>,
      <<0, 0, 0, 0, 10000, 0, 0, 0>>,
      <<0, 0, 7071, 0, 0, -7071, 0, 0>>,
      <<0, 0, 0, 0, 0, 0, 10000, 0>>,
      <<0, 0, 0, 0, 0, 0, 0, 10000>>>>

\* apply_matrix_expanded___3: unitary([...], temp_array), entries times 10^4
QmodTable3 ==
    <<<<10000, 0, 0, 0, 0, 0, 0, 0>>,
      <<0, 10000, 0, 0, 0, 0, 0, 0>>,
      <<0, 0, 5000, 0, 0, 8660, 0, 0>>,
      <<0, 0, 0, 10000, 0, 0, 0, 0>>,
      <<0, 0, 0, 0, 10000, 0, 0, 0>>,
      <<0, 0, 8660, 0, 0, -5000, 0, 0>>,
      <<0, 0, 0, 0, 0, 0, 10000, 0>>,
      <<0, 0, 0, 0, 0, 0, 0, 10000>>>>

\* apply_matrix_expanded___4: unitary([...], temp_array), entries times 10^4
QmodTable4 ==
    <<<<10000, 0, 0, 0, 0, 0, 0, 0>>,
      <<0, 8660, 0, 0, 5000, 0, 0, 0>>,
      <<0, 0, 10000, 0, 0, 0, 0, 0>>,
      <<0, 0, 0, 10000, 0, 0, 0, 0>>,
      <<0, -5000, 0, 0, 8660, 0, 0, 0>>,
      <<0, 0, 0, 0, 0, 10000, 0, 0>>,
      <<0, 0, 0, 0, 0, 0, 10000, 0>>,
      <<0, 0, 0, 0, 0, 0, 0, 10000>>>>

\* apply_matrix_expanded___5: unitary([...], temp_array), entries times 10^4
QmodTable5 ==
    <<<<10000, 0, 0, 0, 0, 0, 0, 0>>,
      <<0, 10000, 0, 0, 0, 0, 0, 0>>,
      <<0, 0, 7746, 0, 0, 6325, 0, 0>>,
      <<0, 0, 0, 10000, 0, 0, 0, 0>>,
      <<0, 0, 0, 0, 10000, 0, 0, 0>>,
      <<0, 0, 6325, 0, 0, -7746, 0, 0>>,
      <<0, 0, 0, 0, 0, 0, 10000, 0>>,
      <<0, 0, 0, 0, 0, 0, 0, 10000>>>>

\* apply_matrix_expanded___6: unitary([...], temp_array), entries times 10^4
QmodTable6 ==
    <<<<10000, 0, 0, 0, 0, 0, 0, 0>>,
      <<0, 10000, 0, 0, 0, 0, 0, 0>>,
      <<0, 0, 6325, 0, 0, 7746, 0, 0>>,
      <<0, 0, 0, 10000, 0, 0, 0, 0>>,
      <<0, 0, 0, 0, 10000, 0, 0, 0>>,
      <<0, 0, 7746, 0, 0, -6325, 0, 0>>,
      <<0, 0, 0, 0, 0, 0, 10000, 0>>,
      <<0, 0, 0, 0, 0, 0, 0, 10000>>>>

\* apply_matrix_expanded___7: unitary([...], temp_array), entries times 10^4
QmodTable7 ==
    <<<<10000, 0, 0, 0, 0, 0, 0, 0>>,
      <<0, 10000, 0, 0, 0, 0, 0, 0>>,
      <<0, 0, 4472, 0, 0, 8944, 0, 0>>,
      <<0, 0, 0, 10000, 0, 0, 0, 0>>,
      <<0, 0, 0, 0, 10000, 0, 0, 0>>,
      <<0, 0, 8944, 0, 0, -4472, 0, 0>>,
      <<0, 0, 0, 0, 0, 0, 10000, 0>>,
      <<0, 0, 0, 0, 0, 0, 0, 10000>>>>

\* apply_matrix_expanded___8: unitary([...], temp_array), entries times 10^4
QmodTable8 ==
    <<<<10000, 0, 0, 0, 0, 0, 0, 0>>,
      <<0, 8944, 0, 0, 4472, 0, 0, 0>>,
      <<0, 0, 10000, 0, 0, 0, 0, 0>>,
      <<0, 0, 0, 10000, 0, 0, 0, 0>>,
      <<0, -4472, 0, 0, 8944, 0, 0, 0>>,
      <<0, 0, 0, 0, 0, 10000, 0, 0>>,
      <<0, 0, 0, 0, 0, 0, 10000, 0>>,
      <<0, 0, 0, 0, 0, 0, 0, 10000>>>>

\* {qa, qb, qc} -> temp_array; unitary(table, temp_array)
apply_matrix_expanded___0 == QGate("unitary", <<>>, <<0, 1, 2>>, QmodTable0)
apply_matrix_expanded___1 == QGate("unitary", <<>>, <<0, 1, 2>>, QmodTable1)
apply_matrix_expanded___2 == QGate("unitary", <<>>, <<0, 1, 3>>, QmodTable2)
apply_matrix_expanded___3 == QGate("unitary", <<>>, <<1, 2, 3>>, QmodTable3)
apply_matrix_expanded___4 == QGate("unitary", <<>>, <<0, 2, 3>>, QmodTable4)
apply_matrix_expanded___5 == QGate("unitary", <<>>, <<0, 1, 4>>, QmodTable5)
apply_matrix_expanded___6 == QGate("unitary", <<>>, <<1, 2, 4>>, QmodTable6)
apply_matrix_expanded___7 == QGate("unitary", <<>>, <<2, 3, 4>>, QmodTable7)
apply_matrix_expanded___8 == QGate("unitary", <<>>, <<0, 3, 4>>, QmodTable8)

\* the unitaries called by a wrapper, tagged with the wrapper's kind
Wrapped(kind, calls) == [i \in 1..Len(calls) |-> [calls[i] EXCEPT !.op = kind]]

apply_Uab_expanded___0 == Wrapped("Uab", <<apply_matrix_expanded___0>>)
apply_Uf_expanded___0 == Wrapped("Uf", <<apply_matrix_expanded___1>>)
apply_Uab_expanded___1 == Wrapped("Uab", <<apply_matrix_expanded___2, apply_matrix_expanded___3>>)
apply_Uf_expanded___1 == Wrapped("Uf", <<apply_matrix_expanded___4>>)
apply_Uab_expanded___2 ==
    Wrapped("Uab", <<apply_matrix_expanded___5, apply_matrix_expanded___6,
                     apply_matrix_expanded___7>>)
apply_Uf_expanded___2 == Wrapped("Uf", <<apply_matrix_expanded___8>>)

\* {...} -> temp_array; control (temp_array[0:m]) { X(temp_array[m]); }
QMultiCNOT(temp, m) == QGate("MCX", SubSeq(temp, 1, m), <<temp[m + 1]>>, <<>>)

apply_MultiCNOT_expanded___0 == QMultiCNOT(<<0, 1, 2>>, 2)
apply_MultiCNOT_expanded___1 == QMultiCNOT(<<2, 3>>, 1)
apply_MultiCNOT_expanded___2 == QMultiCNOT(<<0, 2, 4>>, 2)

\* control (q_array[c]) { X(q_array[t]); }  and  control (q_array[c]) { H(q_array[t]); }
QControlX(c, t) == QGate("CX", <<c>>, <<t>>, <<>>)
QControlH(c, t) == QGate("CH", <<c>>, <<t>>, <<>>)

symmetric_compression_algorithm_expanded___0 ==
    <<QControlX(1, 0), QControlH(0, 1)>>
        \o apply_Uab_expanded___0 \o apply_Uf_expanded___0 \o <<QControlX(2, 1)>>
        \o apply_Uab_expanded___1 \o apply_Uf_expanded___1 \o <<QControlX(3, 2)>>
        \o apply_Uab_expanded___2 \o apply_Uf_expanded___2 \o <<QControlX(4, 3)>>
        \o <<QControlX(2, 1), QControlX(2, 0), apply_MultiCNOT_expanded___0>>
        \o <<QControlX(3, 2), apply_MultiCNOT_expanded___1>>
        \o <<QControlX(4, 2), QControlX(4, 0), apply_MultiCNOT_expanded___2>>

\* main of the .qmod after allocate(5, x)
qmod_main == <<QGate("HT", <<>>, <<>>, <<>>)>> \o symmetric_compression_algorithm_expanded___0

QmodLen == 5

(***************************************************************************)
(* Writing the notebook's model: every emitted gate, a matrix with its     *)
(* entries rounded to 4 decimals                                           *)
(***************************************************************************)
Radical(m) ==
    (IF Bit(m, 0) = 1 THEN 2 ELSE 1) * (IF Bit(m, 1) = 1 THEN 3 ELSE 1)
        * (IF Bit(m, 2) = 1 THEN 5 ELSE 1)

\* floor(sqrt(v)), searched between lo and hi
RECURSIVE IsqrtIn(_, _, _)
IsqrtIn(v, lo, hi) ==
    IF lo >= hi THEN lo
    ELSE LET mid == (lo + hi + 1) \div 2
         IN  IF mid * mid <= v THEN IsqrtIn(v, mid, hi) ELSE IsqrtIn(v, lo, mid - 1)

\* round(x * 10^4) for an entry x = +-sqrt(p/q) with |x| <= 1
Round4(x) ==
    IF x = FZero THEN 0
    ELSE LET m == CHOOSE k \in 0..7 : x.c[k] # 0
             p0 == x.c[m] * x.c[m] * Radical(m)
             q0 == x.d * x.d
             g == GCD(p0, q0)
             r == (IsqrtIn((4 * Scale * Scale * (p0 \div g)) \div (q0 \div g), 0, 2 * Scale) + 1)
                      \div 2
         IN  IF x.c[m] < 0 THEN -r ELSE r

RoundedMatrix(M) == [i \in 1..8 |-> [j \in 1..8 |-> Round4(M[i - 1][j - 1])]]

\* the gate as it is written to the model file
Emitted(g) ==
    QGate(g.op, g.ctrl, g.tgt,
          IF g.op \in {"Uab", "Uf"} THEN RoundedMatrix(GateMatrix(g)) ELSE <<>>)

InitExpansion ==
    /\ prog = "write_qmod"
    /\ n = QmodLen
    /\ trace = <<>>
    /\ qtrace = <<>>
    /\ q_in = <<>>
    /\ q_array = <<>>
    /\ psi = <<>>
    /\ pc = 0

\* create_model(main): the notebook's main emits its next gate
NotebookEmit ==
    /\ prog = "write_qmod"
    /\ Len(trace) < Len(main(n))
    /\ trace' = Append(trace, Emitted(main(n)[Len(trace) + 1]))
    /\ UNCHANGED <<prog, pc, n, q_in, q_array, psi, qtrace>>

\* the saved model's main reaches its next gate
QmodEmit ==
    /\ prog = "write_qmod"
    /\ Len(qtrace) < Len(qmod_main)
    /\ qtrace' = Append(qtrace, qmod_main[Len(qtrace) + 1])
    /\ UNCHANGED <<prog, pc, n, q_in, q_array, psi, trace>>

NextExpansion == NotebookEmit \/ QmodEmit

SpecExpansion == InitExpansion /\ [][NextExpansion]_vars

Shape(g) == <<g.op, g.ctrl, g.tgt>>
Min(a, b) == IF a < b THEN a ELSE b
BothWritten == prog = "write_qmod" /\ Len(trace) = Len(main(n)) /\ Len(qtrace) = Len(qmod_main)

\* the gate list as the claim spells it out
ClaimedSequence ==
    <<<<"CX", <<1>>, <<0>>>>, <<"CH", <<0>>, <<1>>>>,
      <<"Uab", <<>>, <<0, 1, 2>>>>, <<"Uf", <<>>, <<0, 1, 2>>>>, <<"CX", <<2>>, <<1>>>>,
      <<"Uab", <<>>, <<0, 1, 3>>>>, <<"Uab", <<>>, <<1, 2, 3>>>>,
      <<"Uf", <<>>, <<0, 2, 3>>>>, <<"CX", <<3>>, <<2>>>>,
      <<"Uab", <<>>, <<0, 1, 4>>>>, <<"Uab", <<>>, <<1, 2, 4>>>>, <<"Uab", <<>>, <<2, 3, 4>>>>,
      <<"Uf", <<>>, <<0, 3, 4>>>>, <<"CX", <<4>>, <<3>>>>,
      <<"CX", <<2>>, <<1>>>>, <<"CX", <<2>>, <<0>>>>, <<"MCX", <<0, 1>>, <<2>>>>,
      <<"CX", <<3>>, <<2>>>>, <<"MCX", <<2>>, <<3>>>>,
      <<"CX", <<4>>, <<2>>>>, <<"CX", <<4>>, <<0>>>>, <<"MCX", <<0, 2>>, <<4>>>>>>

\* C5: the saved .qmod is the expansion of the notebook's main for 5 qubits:
\* the same gates on the same qubits in the same order, namely the listed
\* sequence after hadamard_transform.
C5_QmodIsExpansion ==
    prog = "write_qmod" =>
        /\ \A i \in 1..Min(Len(trace), Len(qtrace)) : Shape(trace[i]) = Shape(qtrace[i])
        /\ BothWritten =>
               /\ Len(trace) = Len(qtrace)
               /\ Shape(trace[1]) = <<"HT", <<>>, <<>>>>
               /\ [i \in 1..(Len(trace) - 1) |-> Shape(trace[i + 1])] = ClaimedSequence

C5_Witness ==
    /\ BothWritten
    /\ Len(trace) = 23
    /\ Shape(qtrace[23]) = <<"MCX", <<0, 2>>, <<4>>>>

\* C6: every 8x8 table of the .qmod equals the matrix the notebook computes
\* for the corresponding call (U_ab(i+1, b+1), U_final(i+1)), entries
\* rounded to 4 decimals; nine matrices in all.
C6_TablesAreRoundedMatrices ==
    prog = "write_qmod" =>
        /\ \A i \in 1..Min(Len(trace), Len(qtrace)) :
              trace[i].op \in {"Uab", "Uf"} => qtrace[i].matrix = trace[i].matrix
        /\ BothWritten =>
               Cardinality({i \in 1..Len(qtrace) : qtrace[i].matrix # <<>>}) = 9

C6_Witness ==
    /\ BothWritten
    /\ trace[14].op = "Uf"
    /\ trace[14].matrix[2][2] = 8944
    /\ qtrace[14].matrix[5][2] = -4472

(***************************************************************************)
(* Quantum counting: statements of the quantum functions.  A statement is  *)
(*   name : "allocate", "X", "H", "Z", "apply_to_all_X", "hadamard_transform",*)
(*          "arith_equation", "complex_predicate"                          *)
(*   ctrl : control qubits,  qs : the qubits it acts on                    *)
(*   inv  : TRUE when the statement stands inside invert / an uncompute    *)
(*   call : the number of the my_grover_operator call it belongs to, or 0  *)
(***************************************************************************)
A_SIZE == 2
B_SIZE == 2
DOMAIN_SIZE == A_SIZE + B_SIZE
DJ_SIZE == 3       \* allocate(3, x) in main of the Deutsch-Jozsa model

Op(name, ctrl, qs) == [name |-> name, ctrl |-> ctrl, qs |-> qs, inv |-> FALSE, call |-> 0]

\* invert: the statements in reverse order, each one inverted
invert(ops) == [i \in 1..Len(ops) |-> [ops[Len(ops) + 1 - i] EXCEPT !.inv = ~@]]

within_apply_NoUncompute(compute, action) == compute \o action
\* within_apply(compute, action): compute, action, then compute uncomputed
within_apply(compute, action) == compute \o action \o invert(compute)

\* the qubits lo, lo+1, ..., lo+size-1
RECURSIVE Qubits(_, _)
Qubits(lo, size) == IF size = 0 THEN <<>> ELSE <<lo>> \o Qubits(lo + 1, size - 1)

\* the value of the unsigned QNum on qubits lo..lo+size-1 in basis state s
QValue(s, lo, size) == (s \div Pow2(lo)) % Pow2(size)

\* arith_equation: res ^= a + b <= 2, a and b the fields of OracleVars
arith_equation_Strict(s) == QValue(s, 0, A_SIZE) + QValue(s, A_SIZE, B_SIZE) < 2
arith_equation(s) == QValue(s, 0, A_SIZE) + QValue(s, A_SIZE, B_SIZE) <= 2

\* complex_predicate: res ^= max(x ^ 4, x & 3) >= 4, x the DJ_SIZE-qubit QNum
Max(a, b) == IF a > b THEN a ELSE b
complex_predicate(s) ==
    Max(Xor3(QValue(s, 0, DJ_SIZE), 4), And3(QValue(s, 0, DJ_SIZE), 3)) >= 4

Predicate(name, s) == IF name = "arith_equation" THEN arith_equation(s) ELSE complex_predicate(s)

\* arith_oracle(state): aux is the qubit after the DOMAIN_SIZE state qubits
arith_oracle ==
    within_apply(<<Op("allocate", <<>>, <<DOMAIN_SIZE>>), Op("X", <<>>, <<DOMAIN_SIZE>>),
                   Op("H", <<>>, <<DOMAIN_SIZE>>)>>,
                 <<Op("arith_equation", <<>>, <<DOMAIN_SIZE>>)>>)

\* prep_minus(out) and my_oracle(predicate, target) of the Deutsch-Jozsa
\* model, target of DJ_SIZE qubits, aux the qubit after them
prep_minus(out) == <<Op("allocate", <<>>, <<out>>), Op("X", <<>>, <<out>>), Op("H", <<>>, <<out>>)>>
my_oracle == within_apply(prep_minus(DJ_SIZE), <<Op("complex_predicate", <<>>, <<DJ_SIZE>>)>>)

\* iqae_state_preparation(vars): vars.state on qubits 0..3, vars.ind on qubit 4
iqae_state_preparation ==
    <<Op("hadamard_transform", <<>>, Qubits(0, DOMAIN_SIZE)),
      Op("arith_equation", <<>>, <<DOMAIN_SIZE>>)>>

\* reflection_about_zero(x): bind(x, [msbs, lsb]) names x[0:len-1] msbs and
\* x[len-1] lsb; the second bind restores x
reflection_about_zero_NoSecondX(len) ==
    <<Op("apply_to_all_X", <<>>, Qubits(0, len)),
      Op("Z", Qubits(0, len - 1), <<len - 1>>)>>
reflection_about_zero(len) ==
    LET msbs == Qubits(0, len - 1)
        lsb == len - 1
    IN  <<Op("apply_to_all_X", <<>>, Qubits(0, len)),
          Op("Z", msbs, <<lsb>>),
          Op("apply_to_all_X", <<>>, Qubits(0, len))>>

(***************************************************************************)
(* The statements on a superposition                                       *)
(***************************************************************************)
\* X / H on each qubit of qs, from position i on
RECURSIVE ApplyToAll(_, _, _, _, _)
ApplyToAll(name, p, qs, i, len) ==
    IF i > Len(qs) THEN p
    ELSE LET q == IF name = "X" THEN ApplyCX(p, <<>>, qs[i], len) ELSE ApplyH(p, qs[i], len)
         IN  IF q = q THEN ApplyToAll(name, q, qs, i + 1, len) ELSE p

\* control(ctrl, Z(t)): the sign of the states with every control and t set
ApplyCZ(p, ctrl, t, len) ==
    [s \in BasisStates(len) |->
        IF CtrlSet(s, ctrl) /\ Bit(s, t) = 1 THEN FNeg(p[s]) ELSE p[s]]

\* res ^= predicate
ApplyPredicate(name, p, res, len) ==
    [s \in BasisStates(len) |->
        p[IF Predicate(name, s) THEN SetBit(s, res, 1 - Bit(s, res)) ELSE s]]

\* X, H, Z and res ^= ... are their own inverses; allocate / free leave the
\* amplitudes as they are (the qubit is |0> outside its lifetime)
ApplyOp(p, op, len) ==
    CASE op.name = "allocate" -> p
      [] op.name \in {"X", "apply_to_all_X"} -> ApplyToAll("X", p, op.qs, 1, len)
      [] op.name \in {"H", "hadamard_transform"} -> ApplyToAll("H", p, op.qs, 1, len)
      [] op.name = "Z" -> ApplyCZ(p, op.ctrl, op.qs[1], len)
      [] op.name \in {"arith_equation", "complex_predicate"} ->
             ApplyPredicate(op.name, p, op.qs[1], len)

\* the equal superposition of the basis states of the first m qubits
UniformState(m, len) ==
    [s \in BasisStates(len) |-> IF s < Pow2(m) THEN SqrtRatio(1, Pow2(m)) ELSE FZero]

CountingInput(in, len) ==
    IF in.kind = "uniform" THEN UniformState(in.k, len) ELSE BasisVector(in.k, len)

Inputs(m) == {[kind |-> "basis", k |-> s] : s \in BasisStates(m)} \cup {[kind |-> "uniform", k |-> m]}

CountingProgram ==
    CASE prog = "arith_oracle" -> arith_oracle
      [] prog = "my_oracle" -> my_oracle
      [] prog = "iqae_state_preparation" -> iqae_state_preparation
      [] prog = "reflection_about_zero" -> reflection_about_zero(n)

Counting ==
    prog \in {"arith_oracle", "my_oracle", "iqae_state_preparation", "reflection_about_zero"}

InitCounting ==
    /\ \/ prog = "arith_oracle" /\ n = DOMAIN_SIZE + 1 /\ q_in \in Inputs(DOMAIN_SIZE)
       \/ prog = "my_oracle" /\ n = DJ_SIZE + 1 /\ q_in \in Inputs(DJ_SIZE)
       \/ prog = "iqae_state_preparation" /\ n = DOMAIN_SIZE + 1
              /\ q_in = [kind |-> "basis", k |-> 0]
       \/ prog = "reflection_about_zero" /\ n \in 2..MaxLen /\ q_in \in Inputs(n)
    /\ psi = CountingInput(q_in, n)
    /\ q_array = <<>>
    /\ trace = <<>>
    /\ qtrace = <<>>
    /\ pc = 0

CountingStep(names) ==
    /\ Counting
    /\ pc < Len(CountingProgram)
    /\ CountingProgram[pc + 1].name \in names
    /\ psi' = ApplyOp(psi, CountingProgram[pc + 1], n)
    /\ pc' = pc + 1
    /\ UNCHANGED <<prog, n, q_in, q_array, trace, qtrace>>

AllocateOrFree == CountingStep({"allocate"})
GateX == CountingStep({"X", "apply_to_all_X"})
GateH == CountingStep({"H", "hadamard_transform"})
ControlZ == CountingStep({"Z"})
ArithmeticXor == CountingStep({"arith_equation", "complex_predicate"})

NextCounting == AllocateOrFree \/ GateX \/ GateH \/ ControlZ \/ ArithmeticXor

SpecCounting == InitCounting /\ [][NextCounting]_vars

CountingDone == Counting /\ pc = Len(CountingProgram)

\* C7: a + b <= 2 holds for exactly 6 of the 16 pairs of 2-bit unsigned
\* integers: the state prepared by iqae_state_preparation has 16 basis
\* states, one per pair, 6 of them with the indicator set.
C7_SixSolutions ==
    (CountingDone /\ prog = "iqae_state_preparation") =>
        /\ Cardinality({QValue(s, 0, DOMAIN_SIZE) : s \in Support(psi)}) = 16
        /\ Cardinality(Support(psi)) = 16
        /\ Cardinality({s \in Support(psi) : Bit(s, DOMAIN_SIZE) = 1}) = 6
        /\ \A s \in Support(psi) :
              Bit(s, DOMAIN_SIZE) = 1 <=> QValue(s, 0, 2) + QValue(s, 2, 2) <= 2

C7_Witness ==
    /\ CountingDone /\ prog = "iqae_state_preparation"
    /\ psi[16 + 2 + 0] # FZero
    /\ psi[3 + 4] # FZero

PhaseSign(name, s) == IF Predicate(name, s) THEN -1 ELSE 1
OracleName == IF prog = "arith_oracle" THEN "arith_equation" ELSE "complex_predicate"

\* C8: arith_oracle and my_oracle multiply the amplitude of every basis
\* state |a>|b> by (-1)^f(a,b), move no amplitude between basis states, and
\* leave the auxiliary qubit in |0>.
C8_PhaseOracle ==
    (CountingDone /\ prog \in {"arith_oracle", "my_oracle"}) =>
        \A s \in BasisStates(n) :
            psi[s] = IF Bit(s, n - 1) = 1 THEN FZero
                     ELSE IF PhaseSign(OracleName, s) = -1
                          THEN FNeg(CountingInput(q_in, n)[s])
                          ELSE CountingInput(q_in, n)[s]

C8_Witness ==
    /\ CountingDone /\ prog = "arith_oracle"
    /\ q_in = [kind |-> "basis", k |-> 5]
    /\ psi[5] = FNeg(FOne)

\* C9: reflection_about_zero (register length >= 2) multiplies the amplitude
\* of the all-zero state by -1, every other amplitude by +1, and moves no
\* amplitude between basis states.
C9_ReflectionAboutZero ==
    (CountingDone /\ prog = "reflection_about_zero") =>
        \A s \in BasisStates(n) :
            psi[s] = IF s = 0 THEN FNeg(CountingInput(q_in, n)[s])
                     ELSE CountingInput(q_in, n)[s]

C9_Witness ==
    /\ CountingDone /\ prog = "reflection_about_zero"
    /\ n = 3
    /\ q_in = [kind |-> "basis", k |-> 0]
    /\ psi[0] = FNeg(FOne)

(***************************************************************************)
(* The Grover operator.  Its operands are applied as single statements     *)
(* "oracle_operand" and "sp_operand"; x is the register they act on.       *)
(***************************************************************************)
\* sp_oracle = lambda x: hadamard_transform(x), x the DOMAIN_SIZE state qubits
sp_oracle == <<Op("hadamard_transform", <<>>, Qubits(0, DOMAIN_SIZE))>>

\* iqae_oracle(vars): Z(vars.ind)
iqae_oracle == <<Op("Z", <<>>, <<DOMAIN_SIZE>>)>>

my_diffuser_NoInvert(x) ==
    within_apply(<<Op("sp_operand", <<>>, x)>>, <<Op("reflection_about_zero", <<>>, x)>>)
\* my_diffuser(sp_operand, x)
my_diffuser(x) ==
    within_apply(invert(<<Op("sp_operand", <<>>, x)>>),
                 <<Op("reflection_about_zero", <<>>, x)>>)

\* my_grover_operator(oracle_operand, sp_operand, x)
my_grover_operator(x) ==
    <<Op("oracle_operand", <<>>, x)>> \o my_diffuser(x) \o <<Op("U", <<>>, <<x[1]>>)>>

InCall(ops, c) == [i \in 1..Len(ops) |-> [ops[i] EXCEPT !.call = c]]

\* power(k, body): the body k times; the c-th repetition is call c
RECURSIVE power(_, _, _)
power(k, body, c) == IF c > k THEN <<>> ELSE InCall(body, c) \o power(k, body, c + 1)

my_iqae_algorithm_PrepEveryIteration(k, x) ==
    power(k, <<Op("sp_operand", <<>>, x)>> \o my_grover_operator(x), 1)
\* my_iqae_algorithm(k, oracle_operand, sp_operand, x)
my_iqae_algorithm(k, x) == <<Op("sp_operand", <<>>, x)>> \o power(k, my_grover_operator(x), 1)

\* the registers of EstimationVars: x1, x2 (2 qubits each), integrator (5), ind
X1_SIZE == 2
X2_SIZE == 2
INTEGRATOR_SIZE == 5
ESTIMATION_SIZE == X1_SIZE + X2_SIZE + INTEGRATOR_SIZE + 1

\* grover_algorithm(k, oracle_operand, sp_operand, x) of the option-pricing
\* model; grover_operator is the library function, applied as one statement
grover_algorithm(k, x) ==
    <<Op("sp_operand", <<>>, x)>> \o power(k, <<Op("grover_operator", <<>>, x)>>, 1)

\* the statements of an operand, as bound by the caller
OracleOperand(in) == IF in.oracle = "arith_oracle" THEN arith_oracle ELSE iqae_oracle
SpOperand(in) == IF in.sp = "sp_oracle" THEN sp_oracle ELSE iqae_state_preparation

\* the statements of ops, one after the other (every intermediate amplitude
\* vector is evaluated in full before the next statement reads it)
RECURSIVE RunOps(_, _, _)
RunOps(p, ops, len) ==
    IF ops = <<>> THEN p
    ELSE LET q == ApplyOp(p, Head(ops), len)
         IN  IF q = q THEN RunOps(q, Tail(ops), len) ELSE p

\* U(0, 0, 0, pi, x[0]): theta = phi = lam = 0 is the identity matrix and the
\* global phase gam = pi multiplies it by exp(i*pi) = -1
ApplyU(p) == [s \in DOMAIN p |-> FNeg(p[s])]

ApplyGroverOp(p, op, in, len) ==
    CASE op.name = "oracle_operand" -> RunOps(p, OracleOperand(in), len)
      [] op.name = "sp_operand" ->
             RunOps(p, IF op.inv THEN invert(SpOperand(in)) ELSE SpOperand(in), len)
      [] op.name = "reflection_about_zero" ->
             RunOps(p, reflection_about_zero(Len(op.qs)), len)
      [] op.name = "U" -> ApplyU(p)

\* the operands and registers of the two uses in the notebook:
\*   main (QPE):  arith_oracle, sp_oracle on state_reg (4 qubits; aux is qubit 4)
\*   IQAE:        iqae_oracle, iqae_state_preparation on IQAEVars (5 qubits)
QpeOperands == [oracle |-> "arith_oracle", sp |-> "sp_oracle", x |-> Qubits(0, DOMAIN_SIZE)]
IqaeOperands ==
    [oracle |-> "iqae_oracle", sp |-> "iqae_state_preparation", x |-> Qubits(0, DOMAIN_SIZE + 1)]

GroverInput(operands, kind, k, reps) ==
    [oracle |-> operands.oracle, sp |-> operands.sp, x |-> operands.x,
     kind |-> kind, k |-> k, reps |-> reps]

\* main of the option-pricing model: grover_algorithm(k, qmci_oracle,
\* rainbow_integration, qvars)
PricingOperands ==
    [oracle |-> "qmci_oracle", sp |-> "rainbow_integration", x |-> Qubits(0, ESTIMATION_SIZE)]

GroverProgram ==
    CASE prog = "my_grover_operator" -> InCall(my_grover_operator(q_in.x), 1)
      [] prog = "my_iqae_algorithm" -> my_iqae_algorithm(q_in.reps, q_in.x)
      [] prog = "grover_algorithm" -> grover_algorithm(q_in.reps, q_in.x)

Grovering == prog \in {"my_grover_operator", "my_iqae_algorithm"}

\* grover_algorithm is run for its sequence of statements only: the
\* amplitudes of its register are not followed (psi stays empty)
InitPricing ==
    /\ prog = "grover_algorithm"
    /\ n = ESTIMATION_SIZE
    /\ q_in \in {GroverInput(PricingOperands, "basis", 0, k) : k \in 0..MaxK}
    /\ psi = <<>>
    /\ q_array = <<>>
    /\ trace = <<>>
    /\ qtrace = <<>>
    /\ pc = 0

InitIqae ==
    /\ n = DOMAIN_SIZE + 1
    /\ \/ /\ prog = "my_grover_operator"
          /\ q_in \in {GroverInput(QpeOperands, i.kind, i.k, 1) : i \in Inputs(DOMAIN_SIZE)}
                        \cup {GroverInput(IqaeOperands, i.kind, i.k, 1) :
                                  i \in Inputs(DOMAIN_SIZE + 1)}
       \/ /\ prog = "my_iqae_algorithm"
          /\ q_in \in {GroverInput(IqaeOperands, "basis", 0, k) : k \in 0..MaxK}
    /\ psi = CountingInput(q_in, n)
    /\ q_array = <<>>
    /\ trace = <<>>
    /\ qtrace = <<>>
    /\ pc = 0

InitGrover == InitIqae \/ InitPricing

GroverStep(name, inv) ==
    /\ Grovering
    /\ pc < Len(GroverProgram)
    /\ GroverProgram[pc + 1].name = name
    /\ GroverProgram[pc + 1].inv = inv
    /\ psi' = ApplyGroverOp(psi, GroverProgram[pc + 1], q_in, n)
    /\ trace' = Append(trace, GroverProgram[pc + 1])
    /\ pc' = pc + 1
    /\ UNCHANGED <<prog, n, q_in, q_array, qtrace>>

ApplyOracle == GroverStep("oracle_operand", FALSE)
ApplyStatePreparation == GroverStep("sp_operand", FALSE)
ApplyInverseStatePreparation == GroverStep("sp_operand", TRUE)
ApplyReflection == GroverStep("reflection_about_zero", FALSE)
ApplyGlobalPhase == GroverStep("U", FALSE)

PricingStep(name) ==
    /\ prog = "grover_algorithm"
    /\ pc < Len(GroverProgram)
    /\ GroverProgram[pc + 1].name = name
    /\ trace' = Append(trace, GroverProgram[pc + 1])
    /\ pc' = pc + 1
    /\ UNCHANGED <<prog, n, q_in, q_array, psi, qtrace>>

PricingStatePreparation == PricingStep("sp_operand")
PricingGroverOperator == PricingStep("grover_operator")

NextGrover ==
    \/ PricingStatePreparation
    \/ PricingGroverOperator
    \/ ApplyOracle
    \/ ApplyStatePreparation
    \/ ApplyInverseStatePreparation
    \/ ApplyReflection
    \/ ApplyGlobalPhase

SpecGrover == InitGrover /\ [][NextGrover]_vars

GroverDone == Grovering /\ pc = Len(GroverProgram)

Applied(op) == <<op.name, op.inv>>

\* the statements of call c applied so far
OfCall(c) == LET InC(op) == op.call = c IN SelectSeq(trace, InC)

\* the order Q = - A S_0 A^dagger S_psi1 prescribes, rightmost factor first
ExpectedOrder ==
    <<<<"oracle_operand", FALSE>>, <<"sp_operand", TRUE>>, <<"reflection_about_zero", FALSE>>,
      <<"sp_operand", FALSE>>, <<"U", FALSE>>>>

Count(ops, a) == Cardinality({i \in 1..Len(ops) : Applied(ops[i]) = a})

\* the sign S_psi1 gives basis state s
OracleSign(in, s) ==
    IF in.oracle = "arith_oracle" THEN PhaseSign("arith_equation", s)
    ELSE IF Bit(s, DOMAIN_SIZE) = 1 THEN -1 ELSE 1

Signed(sign, a) == IF sign = -1 THEN FNeg(a) ELSE a

\* SUM over the basis states u >= i of a[u] * sign(u) * v[u]
RECURSIVE Overlap(_, _, _, _, _)
Overlap(a, v, in, i, len) ==
    IF i >= Pow2(len) THEN FZero
    ELSE FAdd(Signed(OracleSign(in, i), FMul(a[i], v[i])), Overlap(a, v, in, i + 1, len))

\* Q v for Q = -(I - 2|a><a|) S_psi1, with a = A|0>:  2 <a|S v> a - S v
QOf(v, in, len) ==
    LET a == RunOps(BasisVector(0, len), SpOperand(in), len)
        two == FAdd(FOne, FOne)
        w == FMul(two, Overlap(a, v, in, 0, len))
    IN  [s \in BasisStates(len) |->
            FAdd(FMul(w, a[s]), Signed(-OracleSign(in, s), v[s]))]

\* C10: in every call of my_grover_operator the operations are applied in
\* the order oracle, inverse state preparation, reflection_about_zero, state
\* preparation, global phase -1; state preparation and its inverse once each
\* per call; and the call maps its input v to Q v.
C10_GroverOrder ==
    Grovering =>
        /\ \A c \in 1..q_in.reps :
              /\ Len(OfCall(c)) <= Len(ExpectedOrder)
              /\ \A i \in 1..Len(OfCall(c)) : Applied(OfCall(c)[i]) = ExpectedOrder[i]
              /\ (GroverDone \/ OfCall(c + 1) # <<>>) =>
                     /\ Len(OfCall(c)) = Len(ExpectedOrder)
                     /\ Count(OfCall(c), <<"sp_operand", FALSE>>) = 1
                     /\ Count(OfCall(c), <<"sp_operand", TRUE>>) = 1
        /\ (GroverDone /\ prog = "my_grover_operator") =>
               psi = QOf(CountingInput(q_in, n), q_in, n)

C10_Witness ==
    /\ GroverDone /\ prog = "my_iqae_algorithm"
    /\ q_in.reps = 2
    /\ Len(trace) = 11
    /\ Applied(trace[8]) = <<"sp_operand", TRUE>>

Estimating == prog \in {"my_iqae_algorithm", "grover_algorithm"}
EstimationDone == Estimating /\ pc = Len(GroverProgram)

\* the statements one application of the Grover operator consists of
OperatorBody ==
    IF prog = "grover_algorithm" THEN <<<<"grover_operator", FALSE>>>> ELSE ExpectedOrder

\* Q^k v
RECURSIVE QPow(_, _, _, _)
QPow(k, v, in, len) ==
    IF k = 0 THEN v
    ELSE LET q == QOf(v, in, len)
         IN  IF q = q THEN QPow(k - 1, q, in, len) ELSE v

\* C11: my_iqae_algorithm and grover_algorithm apply the state preparation
\* once, as the first statement and outside every Grover iteration, then the
\* Grover operator exactly k times, one whole application after the other;
\* for k = 0 nothing but the state preparation is applied; and
\* my_iqae_algorithm takes |0> to Q^k A|0>.
C11_IqaeIsQkA ==
    Estimating =>
        /\ trace # <<>> =>
               /\ Applied(trace[1]) = <<"sp_operand", FALSE>>
               /\ trace[1].call = 0
        /\ Len(OfCall(0)) <= 1
        /\ \A i \in 1..Len(trace) :
               /\ trace[i].call \in 0..q_in.reps
               /\ i > 1 => trace[i].call = ((i - 2) \div Len(OperatorBody)) + 1
               /\ i > 1 => Applied(trace[i]) = OperatorBody[((i - 2) % Len(OperatorBody)) + 1]
        /\ EstimationDone =>
               /\ Len(trace) = 1 + q_in.reps * Len(OperatorBody)
               /\ \A c \in 1..q_in.reps : Len(OfCall(c)) = Len(OperatorBody)
               /\ q_in.reps = 0 => [i \in 1..Len(trace) |-> Applied(trace[i])] = <<<<"sp_operand", FALSE>>>>
        /\ (EstimationDone /\ prog = "my_iqae_algorithm") =>
               psi = QPow(q_in.reps,
                          RunOps(BasisVector(0, n), SpOperand(q_in), n), q_in, n)

C11_Witness ==
    /\ EstimationDone /\ prog = "my_iqae_algorithm"
    /\ q_in.reps = 3
    /\ Len(trace) = 16
    /\ psi # RunOps(BasisVector(0, n), SpOperand(q_in), n)

(***************************************************************************)
(* The electric-grid model.  QAOAVars is x: qbit[4][3] (x[i] is the array  *)
(* of source i, x[i][j] its line to consumer j) followed by three slack    *)
(* registers of two qubits.  phase(expr, theta) is diagonal: it multiplies *)
(* the amplitude of the basis state v by exp(i * theta * expr(v)), so it   *)
(* is run on every basis state v of the 18 qubits.  The coefficients have  *)
(* one decimal; all values are kept in tenths.                             *)
(***************************************************************************)
GRID_SOURCES == 3
GRID_CONSUMERS == 4
SLACK_SIZE == 2
QAOA_SIZE == GRID_SOURCES * GRID_CONSUMERS + GRID_SOURCES * SLACK_SIZE

\* v.x[i][j] and v.source_supply_rule_<i>_slack_var[b] in the basis state v
XBit(v, i, j) == v[GRID_CONSUMERS * i + j]
SlackBit(v, i, b) == v[GRID_SOURCES * GRID_CONSUMERS + SLACK_SIZE * i + b]

\* the coefficient of v.x[i][j] in tenths (i + 1, j + 1 index the tuples)
Coefficient == <<<<5, 10, 10, 21>>, <<10, 6, 14, 10>>, <<10, 14, 4, 23>>>>

Sq(a) == a * a

RECURSIVE SumOver(_, _, _)
SumOver(F(_), lo, hi) == IF lo > hi THEN 0 ELSE F(lo) + SumOver(F, lo + 1, hi)

\* 0.5*x[0][0] + x[0][1] + ... + 2.3*x[2][3]
TransmissionCost(v) ==
    LET Row(i) == LET Term(j) == Coefficient[i + 1][j + 1] * XBit(v, i, j)
                  IN  SumOver(Term, 0, GRID_CONSUMERS - 1)
    IN  SumOver(Row, 0, GRID_SOURCES - 1)

\* x[0][j] + x[1][j] + x[2][j]
Supplied(v, j) == LET Term(i) == XBit(v, i, j) IN SumOver(Term, 0, GRID_SOURCES - 1)

ConsumerPenalty_NotSquared(v, j) == 200 * (Supplied(v, j) - 1)
\* 20 * ((x[0][j] + x[1][j] + x[2][j] - 1) ** 2)
ConsumerPenalty(v, j) == 200 * Sq(Supplied(v, j) - 1)

\* slack[0] + slack[1] + x[i][0] + ... + x[i][3]
Load(v, i) ==
    LET S(b) == SlackBit(v, i, b)
        T(j) == XBit(v, i, j)
    IN  SumOver(S, 0, SLACK_SIZE - 1) + SumOver(T, 0, GRID_CONSUMERS - 1)

\* 80.0 * ((0.5*slack[0] + 0.5*slack[1] + 0.5*x[i][0] + ... + 0.5*x[i][3] - 1) ** 2):
\* the bracket is (5 * Load - 10) tenths, its square hundredths
SupplyPenalty(v, i) == 8 * Sq(5 * Load(v, i) - 10)

\* the first argument of phase
PhaseExpression(v) ==
    LET C(j) == ConsumerPenalty(v, j)
        S(i) == SupplyPenalty(v, i)
    IN  -(TransmissionCost(v) + SumOver(C, 0, GRID_CONSUMERS - 1)
                              + SumOver(S, 0, GRID_SOURCES - 1))

InitGrid ==
    /\ prog = "electric_grid_optimization"
    /\ n = QAOA_SIZE
    /\ q_in \in Registers(QAOA_SIZE)
    /\ q_array = q_in
    /\ psi = <<>>
    /\ trace = <<>>
    /\ qtrace = <<>>
    /\ pc = 0

\* phase (expr, params[i]) on the basis state q_array: the state is kept and
\* the exponent's factor expr(q_array) is recorded
Phase ==
    /\ prog = "electric_grid_optimization"
    /\ pc = 0
    /\ trace' = Append(trace, [name |-> "phase", expr |-> PhaseExpression(q_array)])
    /\ pc' = 1
    /\ UNCHANGED <<prog, n, q_in, q_array, psi, qtrace>>

NextGrid == Phase
SpecGrid == InitGrid /\ [][NextGrid]_vars

GridDone == prog = "electric_grid_optimization" /\ pc = 1

\* the cost is the expression that phase negates
Cost == -trace[1].expr

\* every consumer is supplied by exactly one source, and every source
\* together with its slack carries exactly two lines
Feasible(v) ==
    /\ \A j \in 0..(GRID_CONSUMERS - 1) : Supplied(v, j) = 1
    /\ \A i \in 0..(GRID_SOURCES - 1) : Load(v, i) = 2

\* C12: over all assignments of QAOAVars the cost is at least 2.5 (25
\* tenths), and an assignment of cost 2.5 satisfies every constraint and has
\* x[0][0] = x[1][1] = x[2][2] = x[1][3] = 1 and its other eight x bits 0.
C12_MinimumIsFeasible ==
    GridDone =>
        /\ Cost >= 25
        /\ Cost = 25 =>
               /\ Feasible(q_in)
               /\ \A i \in 0..(GRID_SOURCES - 1) : \A j \in 0..(GRID_CONSUMERS - 1) :
                      XBit(q_in, i, j) =
                          IF <<i, j>> \in {<<0, 0>>, <<1, 1>>, <<2, 2>>, <<1, 3>>} THEN 1 ELSE 0

C12_Witness ==
    /\ GridDone
    /\ Cost = 25
    /\ XBit(q_in, 1, 3) = 1
    /\ SlackBit(q_in, 0, 1) = 1 /\ SlackBit(q_in, 2, 0) = 1

(***************************************************************************)
(* Claims                                                                  *)
(***************************************************************************)
OneHot(len, j) == [i \in 0..(len - 1) |-> IF i = j THEN 1 ELSE 0]
AllZero(len) == [i \in 0..(len - 1) |-> 0]
FinalDone == prog = "final_stage" /\ pc = FinalLen

\* C1: after the final stage, the basis state with a single 1 at qubit j
\* holds the binary representation of j+1 (qubit 0 least significant), the
\* all-zero state is unchanged, and every qubit of index >= ceil(log2(n+1))
\* is 0.
C1_FinalStageMapsCtoB ==
    FinalDone =>
        /\ \A j \in 0..(n - 1) :
              q_in = OneHot(n, j) =>
                  /\ \A i \in 0..(n - 1) : q_array[i] = Bit(j + 1, i)
                  /\ \A i \in CeilLog2(n + 1)..(n - 1) : q_array[i] = 0
        /\ (q_in = AllZero(n) => q_array = AllZero(n))

C1_Witness ==
    /\ FinalDone
    /\ n = 5
    /\ q_in = OneHot(5, 4)
    /\ q_array = [i \in 0..4 |-> IF i \in {0, 2} THEN 1 ELSE 0]

(***************************************************************************)
(* Both runs together: the final stage on basis states and the whole       *)
(* circuit on superpositions, each followed by its decompression.          *)
(***************************************************************************)
InitReversible == InitFinal \/ InitCompress
NextReversible == NextFinal \/ NextCompress
SpecReversible == InitReversible /\ [][NextReversible]_vars

\* the final stage applied to the basis state r
RECURSIVE RunGates(_, _)
RunGates(r, gs) == IF gs = <<>> THEN r ELSE RunGates(ControlledX(r, Head(gs)), Tail(gs))

\* C4: the inverse gates in reverse order after the compression restore the
\* input; the final stage (n = 5) sends different basis states to different
\* basis states, and the same gates in reverse order undo it.
C4_Reversible ==
    /\ (Compressing /\ pc = 2 * ProgLen) => psi = InputState(q_in, n)
    /\ (prog = "final_stage" /\ pc = 2 * FinalLen) => q_array = q_in
    /\ (FinalDone /\ n = 5) =>
           \A r \in Registers(5) \ {q_in} : RunGates(r, FinalStage(5)) # q_array

C4_Witness ==
    /\ prog = "symmetric_compression_algorithm" /\ n = 5
    /\ pc = 2 * ProgLen
    /\ q_in = [kind |-> "basis", k |-> 21]
    /\ psi = BasisVector(21, 5)

====
